---- MODULE Spec2Model ----
(***************************************************************************)
(* Model of the Blender add-on manager: module discovery (ProcFinder),     *)
(* the loader with its module cache (ProcLoader, CacheLoader), the add-on  *)
(* life cycle (AddonManager, in its src/core and src/manager/core          *)
(* versions) and the keymap manager.                                       *)
(*                                                                         *)
(* Strings are sequences of one-character strings, so that lstrip,         *)
(* startswith and endswith act on characters as they do in Python.         *)
(***************************************************************************)
EXTENDS Integers, Sequences, FiniteSets, TLC

\* ------------------------------------------------------------------------
\* Bounds of the model
\* ------------------------------------------------------------------------

\* Handler calls per behaviour.
MaxCalls == 3

\* Keymap items the host hands out per behaviour.
MaxKeys == 3

\* Calls made to the properties manager in a run
MaxPropCalls == 5

\* ------------------------------------------------------------------------
\* Strings
\* ------------------------------------------------------------------------

\* An optional value (a missing argument, attribute or file) is the empty
\* sequence, a present one the sequence of that one value.
Absent == <<>>
Some(v) == <<v>>

SEP == "/"
DOT == "."

Chars(s) == {s[i] : i \in 1..Len(s)}

RECURSIVE LStrip(_, _)
\* str.lstrip(chars): drops leading characters that are in the SET chars.
LStrip(s, cs) ==
    IF s # <<>> /\ Head(s) \in cs THEN LStrip(Tail(s), cs) ELSE s

StartsWith(s, p) == Len(p) <= Len(s) /\ SubSeq(s, 1, Len(p)) = p

EndsWith(s, p) == Len(p) <= Len(s) /\ SubSeq(s, Len(s) - Len(p) + 1, Len(s)) = p

\* str.startswith(tuple): any of the prefixes.
StartsWithAny(s, ps) == \E i \in 1..Len(ps) : StartsWith(s, ps[i])

Replace(s, a, b) == [i \in 1..Len(s) |-> IF s[i] = a THEN b ELSE s[i]]

\* Index of the last occurrence of character c in s, 0 when there is none.
LastIndex(s, c) ==
    LET hits == {i \in 1..Len(s) : s[i] = c}
    IN IF hits = {} THEN 0 ELSE CHOOSE i \in hits : \A j \in hits : j <= i

RECURSIVE RStripSep(_)
RStripSep(s) ==
    IF s # <<>> /\ s[Len(s)] = SEP THEN RStripSep(SubSeq(s, 1, Len(s) - 1)) ELSE s

\* posixpath.dirname
Dirname(p) ==
    LET head == SubSeq(p, 1, LastIndex(p, SEP))
    IN IF head # <<>> /\ Chars(head) # {SEP} THEN RStripSep(head) ELSE head

\* posixpath.basename
Basename(p) == SubSeq(p, LastIndex(p, SEP) + 1, Len(p))

\* posixpath.join of two parts
Join(a, b) ==
    IF b # <<>> /\ Head(b) = SEP THEN b
    ELSE IF a = <<>> \/ a[Len(a)] = SEP THEN a \o b
    ELSE a \o <<SEP>> \o b

\* posixpath.splitext(f)[0] for a file name (no separator in it)
SplitextStem(f) ==
    LET i == LastIndex(f, DOT)
    IN IF i <= 1 THEN f ELSE SubSeq(f, 1, i - 1)

RECURSIVE JoinWith(_, _)
\* sep.join(parts)
JoinWith(parts, sep) ==
    IF parts = <<>> THEN <<>>
    ELSE IF Len(parts) = 1 THEN parts[1]
    ELSE parts[1] \o <<sep>> \o JoinWith(Tail(parts), sep)

\* The permutations of a finite set, as sequences.
Perms(S) ==
    {f \in [1..Cardinality(S) -> S] : \A i, j \in 1..Cardinality(S) : f[i] = f[j] => i = j}

\* ------------------------------------------------------------------------
\* Names used by the code and by the add-on on disk
\* ------------------------------------------------------------------------

sInit == <<"_", "_", "i", "n", "i", "t", "_", "_">>
sPy == <<".", "p", "y">>
sInitPy == sInit \o sPy
sDebug == <<"d", "e", "b", "u", "g">>
sCacheName == <<"a", "d", "d", "o", "n", "_", "m", "o", "d", "u", "l", "e", "s", ".", "j", "s", "o", "n">>

\* basename(dirname(dirname(__file__))) of core/loader/proc_finder.py
OwnPackage == <<"c", "o", "r", "e">>

\* The add-on on disk: /s/m/__init__.py, /s/m/op/{__init__,a,b}.py,
\* /s/m/pn/p.py, /s/m/debug/d.py
ScriptsDir == <<"/", "s">>
AddonDirName == <<"m">>
dOp == <<"o", "p">>
dPn == <<"p", "n">>
dDebug == sDebug
fA == <<"a">>
fB == <<"b">>
fP == <<"p">>
fD == <<"d">>

AddonRoot == Join(ScriptsDir, AddonDirName)
AddonInitFile == Join(AddonRoot, sInitPy)
CustomCachePath == <<"/", "c">>

SubDirs == {dOp, dPn, dDebug}

DirFiles(d) ==
    IF d = dOp THEN {sInitPy, fA \o sPy, fB \o sPy}
    ELSE IF d = dPn THEN {fP \o sPy}
    ELSE IF d = dDebug THEN {fD \o sPy}
    ELSE {sInitPy}

\* Every .py file of the add-on, by absolute path.
FileSet ==
    {Join(AddonRoot, sInitPy)}
        \cup UNION {{Join(Join(AddonRoot, d), f) : f \in DirFiles(d)} : d \in SubDirs}

\* os.path.isfile / os.path.exists for the add-on's source files
IsFile(p) == p \in FileSet

\* What the code of each file defines.  priority and disable are the package
\* attributes an __init__.py may set (optional lists of names); hooks says whether the module defines
\* register() and unregister().  The op package has its attributes only in
\* the tree variant "attrs".
FileContents(file, variant) ==
    IF file = Join(Join(AddonRoot, dOp), sInitPy)
    THEN [members |-> {},
          priority |-> IF variant = "attrs" THEN <<(<<fB>>)>> ELSE <<>>,
          disable |-> IF variant = "attrs" THEN <<(<<fA>>)>> ELSE <<>>,
          hooks |-> FALSE]
    ELSE IF file = Join(Join(AddonRoot, dOp), fA \o sPy)
    THEN [members |-> {"A1", "A2", "A3", "A4", "H", "Operator"},
          priority |-> <<>>, disable |-> <<>>, hooks |-> TRUE]
    ELSE IF file = Join(Join(AddonRoot, dOp), fB \o sPy)
    THEN [members |-> {"B1", "P1"},
          priority |-> <<>>, disable |-> <<>>, hooks |-> FALSE]
    ELSE IF file = Join(Join(AddonRoot, dPn), fP \o sPy)
    THEN [members |-> {"P1"},
          priority |-> <<>>, disable |-> <<>>, hooks |-> TRUE]
    ELSE IF file = Join(Join(AddonRoot, dDebug), fD \o sPy)
    THEN [members |-> {"D1"},
          priority |-> <<>>, disable |-> <<>>, hooks |-> FALSE]
    ELSE [members |-> {}, priority |-> <<>>, disable |-> <<>>, hooks |-> TRUE]

\* The classes of the add-on.  base is the bpy.types class it derives from
\* ("object" for none), isType says it is a bpy.types class itself, pr is the
\* optional argument of @priority, dis says it carries
\* @disable, home is the file whose code defines it (b.py imports P1).
ClassNames == {"A1", "A2", "A3", "A4", "B1", "D1", "H", "Operator", "P1"}

\* inspect.getmembers returns the members sorted by name.
NameOrder == <<"A1", "A2", "A3", "A4", "B1", "D1", "H", "Operator", "P1">>

ClassInfo(c) ==
    CASE c = "A1" -> [base |-> "Operator", isType |-> FALSE, pr |-> <<>>, dis |-> FALSE, home |-> <<dOp, fA>>]
      [] c = "A2" -> [base |-> "Operator", isType |-> FALSE, pr |-> <<2>>, dis |-> FALSE, home |-> <<dOp, fA>>]
      [] c = "A3" -> [base |-> "Operator", isType |-> FALSE, pr |-> <<1>>, dis |-> FALSE, home |-> <<dOp, fA>>]
      [] c = "A4" -> [base |-> "Operator", isType |-> FALSE, pr |-> <<-1>>, dis |-> FALSE, home |-> <<dOp, fA>>]
      [] c = "B1" -> [base |-> "Panel", isType |-> FALSE, pr |-> <<>>, dis |-> TRUE, home |-> <<dOp, fB>>]
      [] c = "D1" -> [base |-> "Operator", isType |-> FALSE, pr |-> <<>>, dis |-> FALSE, home |-> <<dDebug, fD>>]
      [] c = "H" -> [base |-> "object", isType |-> FALSE, pr |-> <<>>, dis |-> FALSE, home |-> <<dOp, fA>>]
      [] c = "Operator" -> [base |-> "Operator", isType |-> TRUE, pr |-> <<>>, dis |-> FALSE, home |-> <<>>]
      [] OTHER -> [base |-> "PropertyGroup", isType |-> FALSE, pr |-> <<>>, dis |-> FALSE, home |-> <<dPn, fP>>]

\* The decorators of src/core/loader/proc_loader.py set these attributes.
DisableAttr == "addon_proc_is_disabled"
PriorityAttr == "addon_proc_priority"

\* hasattr(cls, name) on a class of the add-on, and getattr(cls, name, default)
\* for the integer attribute the loader reads
ClassHasAttr(c, name) ==
    \/ name = DisableAttr /\ ClassInfo(c).dis
    \/ name = PriorityAttr /\ ClassInfo(c).pr # Absent

ClassGetAttr(c, name, default) ==
    IF ~ClassHasAttr(c, name) THEN default
    ELSE ClassInfo(c).pr[1]

\* getattr on a (name, class) pair of inspect.getmembers: a tuple has none of
\* the add-on's attributes, so the default comes back.
MemberGetAttr(member, name, default) == default

\* ProcLoader.DEFAULT_TARGET_CLASSES, by the names the add-on derives from
DEFAULT_TARGET_CLASSES == {"Operator", "Panel", "Menu", "PropertyGroup"}

RECURSIVE Split(_, _)
\* str.split(c)
Split(s, c) ==
    LET hits == {i \in 1..Len(s) : s[i] = c}
    IN IF hits = {} THEN <<s>>
       ELSE LET i == CHOOSE k \in hits : \A j \in hits : k <= j
            IN <<SubSeq(s, 1, i - 1)>> \o Split(SubSeq(s, i + 1, Len(s)), c)

\* importlib.import_module(name) with sys.path = [PATH]: the module of file
\* PATH/a/b.py or of package PATH/a/b/__init__.py; found is FALSE when there is
\* neither (ModuleNotFoundError) and for a relative name (TypeError).
ImportModule(path, name) ==
    LET comps == Split(name, DOT)
        base == Join(path, JoinWith(comps, SEP))
        parent == JoinWith(SubSeq(comps, 1, Len(comps) - 1), DOT)
    IN IF \E i \in 1..Len(comps) : comps[i] = <<>>
       THEN [found |-> FALSE, name |-> name, file |-> <<>>, package |-> <<>>, isPkg |-> FALSE]
       ELSE IF IsFile(base \o sPy)
       THEN [found |-> TRUE, name |-> name, file |-> base \o sPy, package |-> parent, isPkg |-> FALSE]
       ELSE IF IsFile(Join(base, sInitPy))
       THEN [found |-> TRUE, name |-> name, file |-> Join(base, sInitPy), package |-> name, isPkg |-> TRUE]
       ELSE [found |-> FALSE, name |-> name, file |-> <<>>, package |-> <<>>, isPkg |-> FALSE]

\* The order a directory listing gives the files of directory d: by name
FileOrders(d) ==
    IF d = dOp THEN {<<sInitPy, fA \o sPy, fB \o sPy>>}
    ELSE Perms(DirFiles(d))

\* os.walk(top): the add-on's root first, then each sub-directory, in the order
\* the file system lists them.
Walks ==
    {<<[root |-> AddonRoot, files |-> <<sInitPy>>]>> \o
        [i \in 1..Cardinality(SubDirs) |->
            [root |-> Join(AddonRoot, order[i]), files |-> pick[order[i]]]] :
        order \in Perms(SubDirs),
        pick \in {f \in [SubDirs -> UNION {FileOrders(d) : d \in SubDirs}] :
                    \A d \in SubDirs : f[d] \in FileOrders(d)}}

\* The listing that is sorted by name
SortedWalk ==
    <<[root |-> AddonRoot, files |-> <<sInitPy>>],
      [root |-> Join(AddonRoot, dDebug), files |-> <<fD \o sPy>>],
      [root |-> Join(AddonRoot, dOp), files |-> <<sInitPy, fA \o sPy, fB \o sPy>>],
      [root |-> Join(AddonRoot, dPn), files |-> <<fP \o sPy>>]>>

\* ------------------------------------------------------------------------
\* ProcLoader.__init__ (src/core/loader/proc_loader.py)
\* ------------------------------------------------------------------------

\* target_classes is optional; what AddonManager passes there is a string (see
\* AddonManagerLoad), kept as it is: TARGET_CLASSES is then that string.
ProcLoaderInit(path, target_classes, is_debug_mode) ==
    LET root == IF IsFile(path) THEN Dirname(path) ELSE path
    IN [ADDON_NAME |-> Basename(root),
        PATH |-> Dirname(root),
        CACHE_PATH |-> Join(Join(Dirname(root), Basename(root)), sCacheName),
        IS_DEBUG_MODE |-> is_debug_mode,
        TARGET_CLASSES |->
            IF target_classes = Absent
            THEN [isStr |-> FALSE, types |-> DEFAULT_TARGET_CLASSES, str |-> <<>>]
            ELSE [isStr |-> TRUE, types |-> {}, str |-> target_classes[1]]]

\* ------------------------------------------------------------------------
\* ProcFinder (src/core/loader/proc_finder.py)
\* ------------------------------------------------------------------------

\* A sort key: <<0, v>> for the number v, <<1, 0>> for float("inf").
KeyLess(a, b) == a[1] < b[1] \/ (a[1] = b[1] /\ a[2] < b[2])

RECURSIVE InsertByKey(_, _)
\* x goes after every element whose key is not greater: the sort is stable.
InsertByKey(sorted, x) ==
    IF sorted = <<>> THEN <<x>>
    ELSE IF KeyLess(x.key, Head(sorted).key) THEN <<x>> \o sorted
    ELSE <<Head(sorted)>> \o InsertByKey(Tail(sorted), x)

RECURSIVE SortedByKey(_)
\* sorted(items, key=...) on a sequence of [key, item] records
SortedByKey(s) ==
    IF s = <<>> THEN <<>>
    ELSE InsertByKey(SortedByKey(SubSeq(s, 1, Len(s) - 1)), s[Len(s)])

Items(s) == [i \in 1..Len(s) |-> s[i].item]

\* lines 51-60: the module-path prefixes that are not loaded
ExcludeModules(loader, exclude_modules, exclude_when_not_debugging) ==
    LET given == IF exclude_modules = Absent THEN <<>> ELSE exclude_modules[1]
        own == given \o <<OwnPackage>>
        all == IF ~loader.IS_DEBUG_MODE /\ exclude_when_not_debugging # Absent
               THEN own \o exclude_when_not_debugging[1]
               ELSE own
    IN [i \in 1..Len(all) |-> loader.ADDON_NAME \o <<DOT>> \o all[i]]

\* lines 70-75: the index of the last entry the directory's module path starts
\* with, -1 when there is none
DirPriority(dir_priorities, root_mdl_path) ==
    IF dir_priorities = Absent THEN -1
    ELSE LET hits == {i \in 1..Len(dir_priorities[1]) :
                        StartsWith(root_mdl_path, dir_priorities[1][i])}
         IN IF hits = {} THEN -1
            ELSE (CHOOSE i \in hits : \A j \in hits : j <= i) - 1

\* modules_path_with_pr[mdl_path] = dir_priority on a dict kept as a sequence of
\* [path, pr] in insertion order: a new key is appended, a known one keeps its place
DictSet(d, k, v) ==
    IF \E i \in 1..Len(d) : d[i].path = k
    THEN [i \in 1..Len(d) |-> IF d[i].path = k THEN [path |-> k, pr |-> v] ELSE d[i]]
    ELSE Append(d, [path |-> k, pr |-> v])

RECURSIVE WalkFiles(_, _, _, _)
\* lines 79-82 for the files of one directory
WalkFiles(d, root_mdl_path, dir_priority, files) ==
    IF files = <<>> THEN d
    ELSE WalkFiles(
            IF EndsWith(Head(files), sPy)
            THEN DictSet(d, root_mdl_path \o SplitextStem(Head(files)), dir_priority)
            ELSE d,
            root_mdl_path, dir_priority, Tail(files))

RECURSIVE WalkModules(_, _, _, _)
\* lines 62-82: the module paths found by the walk, with their directory priority
WalkModules(loader, dir_priorities, walk, d) ==
    IF walk = <<>> THEN d
    ELSE LET root == Head(walk).root
             root_mdl_path == Replace(LStrip(root, Chars(loader.PATH \o <<SEP>>)), SEP, DOT)
         IN WalkModules(loader, dir_priorities, Tail(walk),
                IF StartsWith(Basename(root), <<DOT>>) THEN d
                ELSE WalkFiles(d, root_mdl_path \o <<DOT>>,
                               DirPriority(dir_priorities, root_mdl_path), Head(walk).files))

\* lines 84-90
ModulesPath(modules_path_with_pr) ==
    Items(SortedByKey([i \in 1..Len(modules_path_with_pr) |->
        [key |-> IF modules_path_with_pr[i].pr < 0 THEN <<1, 0>>
                 ELSE <<0, modules_path_with_pr[i].pr>>,
         item |-> modules_path_with_pr[i].path]]))

\* list.remove(x): drops the first element equal to x
ListRemove(s, x) ==
    LET hits == {i \in 1..Len(s) : s[i] = x}
    IN IF hits = {} THEN s
       ELSE LET i == CHOOSE k \in hits : \A j \in hits : k <= j
            IN SubSeq(s, 1, i - 1) \o SubSeq(s, i + 1, Len(s))

\* Module attributes the loader sets, kept for the Python session: prio maps a
\* module name to its ADDON_MODULE_PRIORITY, loaded holds the __init__ modules
\* with ADDON_INIT_LOADED.
NoModAttrs == [prio |-> <<>>, loaded |-> {}]

RECURSIVE SetInitPriority(_, _, _, _)
RECURSIVE SetInitPriorityList(_, _, _, _, _)
RECURSIVE SetListPriority(_, _, _, _, _)
RECURSIVE SetOnePriority(_, _, _, _)
RECURSIVE SetPackagePriority(_, _, _, _)
\* lines 169-176, _set_module_priority(init): st is [attrs, count, ok], ok
\* turning FALSE when an import of line 189 fails
SetInitPriority(loader, variant, init, st) ==
    IF init.name \in st.attrs.loaded THEN st
    ELSE SetInitPriorityList(loader, variant, init, FileContents(init.file, variant).priority,
                             [st EXCEPT !.attrs.loaded = @ \cup {init.name}])

\* lines 178-187: pr is the optional init.priority
SetInitPriorityList(loader, variant, init, pr, marked) ==
    IF pr = Absent THEN marked
    ELSE SetListPriority(loader, variant, init.package \o <<DOT>>, pr[1], marked)

\* line 200: priority_count += 1
Counted(done) == IF done.ok THEN [done EXCEPT !.count = @ + 1] ELSE done

\* lines 187-200: the loop over init.priority
SetListPriority(loader, variant, package_path, names, st) ==
    IF names = <<>> \/ ~st.ok THEN st
    ELSE SetListPriority(loader, variant, package_path, Tail(names),
            Counted(SetOnePriority(loader, variant,
                        ImportModule(loader.PATH, package_path \o Head(names)), st)))

\* lines 189-198 for the module imported at line 189
SetOnePriority(loader, variant, module, st) ==
    IF ~module.found THEN [st EXCEPT !.ok = FALSE]
    ELSE IF module.isPkg
    THEN SetPackagePriority(loader, variant,
            ImportModule(loader.PATH, module.name \o <<DOT>> \o sInit), st)
    ELSE [st EXCEPT !.attrs.prio = (module.name :> st.count) @@ @]

\* lines 192-196: a package sets its priorities from its own __init__
SetPackagePriority(loader, variant, inner, st) ==
    IF inner.found THEN SetInitPriority(loader, variant, inner, st) ELSE st

\* lines 152-204, __set_module_priority: the count starts at 0 for each call
SetModulePriority(loader, variant, init, attrs) ==
    SetInitPriority(loader, variant, init, [attrs |-> attrs, count |-> 0, ok |-> TRUE])

\* lines 123-129: the module-path prefixes init.disable stands for
DisabledModules(init, dis) ==
    IF dis = Absent THEN <<>>
    ELSE [i \in 1..Len(dis[1]) |-> init.package \o <<DOT>> \o dis[1][i] \o <<DOT>>]

\* lines 117-131 for one __init__ module; set is what __set_module_priority
\* left, st is [modules, disabled, attrs, ok]
LoadInitAttrStep(init, dis, set, st) ==
    [modules |-> ListRemove(st.modules, init),
     disabled |-> st.disabled \o DisabledModules(init, dis),
     attrs |-> set.attrs,
     ok |-> set.ok]

RECURSIVE LoadInitAttrLoop(_, _, _, _)
\* lines 115-131 for the __init__ modules in inits
LoadInitAttrLoop(loader, variant, inits, st) ==
    IF inits = <<>> \/ ~st.ok THEN st
    ELSE LoadInitAttrLoop(loader, variant, Tail(inits),
            LoadInitAttrStep(Head(inits),
                             FileContents(Head(inits).file, variant).disable,
                             SetModulePriority(loader, variant, Head(inits), st.attrs),
                             st))

IsInit(mdl) == mdl.file # <<>> /\ EndsWith(mdl.file, sInitPy)

\* lines 112-133, __load_init_attr
LoadInitAttr(loader, variant, modules, attrs) ==
    LoadInitAttrLoop(loader, variant, SelectSeq(modules, IsInit),
        [modules |-> modules, disabled |-> <<>>, attrs |-> attrs, ok |-> TRUE])

\* lines 135-136
AbsToMdlPath(loader, path) == Replace(LStrip(path, Chars(loader.PATH)), SEP, DOT)

\* line 145: the filter of the class members of a module
IsAddonClass(loader, c) ==
    /\ ClassInfo(c).base \in loader.TARGET_CLASSES.types
    /\ ~(ClassInfo(c).isType /\ c \in loader.TARGET_CLASSES.types)
    /\ ~MemberGetAttr(<<c, c>>, "addon_proc_disabled", FALSE)

\* line 148: the key the classes of a module are sorted by
ClassKey(c) ==
    IF ClassGetAttr(c, PriorityAttr, -1) = -1 THEN <<1, 0>>
    ELSE <<0, ClassGetAttr(c, PriorityAttr, -1)>>

\* sorted(classes, key=...) of line 148
SortClasses(classes) ==
    Items(SortedByKey([i \in 1..Len(classes) |->
            [key |-> ClassKey(classes[i]), item |-> classes[i]]]))

\* inspect.getmembers(mdl, isclass): the class members, by name
ClassMembers(contents) == SelectSeq(NameOrder, LAMBDA c : c \in contents.members)

\* lines 145-148 for one module: its AddonModule
LoadModuleClasses(loader, variant, mdl) ==
    [module |-> mdl.name,
     classes |-> SortClasses(SelectSeq(ClassMembers(FileContents(mdl.file, variant)),
                                       LAMBDA c : IsAddonClass(loader, c)))]

\* issubclass(cls, tuple(TARGET_CLASSES)) raises TypeError when TARGET_CLASSES is
\* a non-empty string and some module has a class member to test.
LoadClassesRaises(loader, variant, modules) ==
    /\ loader.TARGET_CLASSES.isStr
    /\ loader.TARGET_CLASSES.str # <<>>
    /\ \E i \in 1..Len(modules) : FileContents(modules[i].file, variant).members # {}

\* lines 138-150, __load_classes
LoadClasses(loader, variant, modules) ==
    [i \in 1..Len(modules) |-> LoadModuleClasses(loader, variant, modules[i])]

\* line 107: the key the modules are sorted by
ModuleKey(attrs, name) ==
    LET pr == IF name \in DOMAIN attrs.prio THEN attrs.prio[name] ELSE -1
    IN IF pr = -1 THEN <<1, 0>> ELSE <<0, pr>>

\* addon_module.py lines 25-31, Plugins.from_addon_modules
RECURSIVE FlattenClasses(_)
FlattenClasses(addon_modules) ==
    IF addon_modules = <<>> THEN <<>>
    ELSE Head(addon_modules).classes \o FlattenClasses(Tail(addon_modules))

FromAddonModules(addon_modules) ==
    [modules |-> [i \in 1..Len(addon_modules) |-> addon_modules[i].module],
     classes |-> FlattenClasses(addon_modules)]

NoPlugins == [modules |-> <<>>, classes |-> <<>>]

\* lines 105-108: the modules sorted by ADDON_MODULE_PRIORITY
SortModules(attrs, loaded) ==
    Items(SortedByKey([i \in 1..Len(loaded) |->
            [key |-> ModuleKey(attrs, loaded[i].module), item |-> loaded[i]]]))

Raised(exc, attrs) ==
    [exc |-> exc, addon_modules |-> <<>>, plugins |-> NoPlugins, attrs |-> attrs]

\* lines 105-110: the result, a Plugins object
FinderSorted(attrs, addon_modules) ==
    [exc |-> "", addon_modules |-> addon_modules,
     plugins |-> FromAddonModules(addon_modules), attrs |-> attrs]

\* lines 104-110, kept the modules that are not excluded
FinderKept(loader, variant, attrs, kept) ==
    IF LoadClassesRaises(loader, variant, kept) THEN Raised("TypeError", attrs)
    ELSE FinderSorted(attrs, SortModules(attrs, LoadClasses(loader, variant, kept)))

\* lines 98-102: the filter on the module path of each file
KeptModules(loader, modules, excluded) ==
    SelectSeq(modules, LAMBDA mdl :
        /\ mdl.file # <<>>
        /\ ~StartsWithAny(AbsToMdlPath(loader, mdl.file \o <<DOT>>), excluded))

\* lines 96-110, init what __load_init_attr left
FinderInit(loader, variant, exclude, init) ==
    IF ~init.ok THEN Raised("ModuleNotFoundError", init.attrs)
    ELSE FinderKept(loader, variant, init.attrs,
                    KeptModules(loader, init.modules, exclude \o init.disabled))

\* lines 93-94: outside debug mode the modules of a package named *debug go
DebugFilter(loader, imported) ==
    IF loader.IS_DEBUG_MODE THEN imported
    ELSE SelectSeq(imported, LAMBDA mdl : ~EndsWith(mdl.package, sDebug))

\* lines 92-110, imported what import_module gave for each module path
FinderImported(loader, variant, exclude, imported, attrs) ==
    IF \E i \in 1..Len(imported) : ~imported[i].found
    THEN Raised("ModuleNotFoundError", attrs)
    ELSE FinderInit(loader, variant, exclude,
                    LoadInitAttr(loader, variant, DebugFilter(loader, imported), attrs))

\* line 92: list(map(import_module, modules_path))
ImportAll(loader, modules_path) ==
    [i \in 1..Len(modules_path) |-> ImportModule(loader.PATH, modules_path[i])]

\* lines 34-110, ProcFinder.load.  The result is [exc, addon_modules, plugins,
\* attrs]: exc names the exception that ends the call ("" for none), attrs are
\* the module attributes after it.
ProcFinderLoad(loader, variant, dir_priorities, exclude_modules, exclude_when_not_debugging, walk, attrs) ==
    FinderImported(loader, variant,
        ExcludeModules(loader, exclude_modules, exclude_when_not_debugging),
        ImportAll(loader, ModulesPath(WalkModules(loader, dir_priorities, walk, <<>>))),
        attrs)

\* The add-on's source: the tree variant, and the arguments its __init__.py
\* passes on every call
Config(variant, dir_priorities, exclude_dirs, exclude_when_not_debugging) ==
    [variant |-> variant, dir_priorities |-> dir_priorities, exclude_dirs |-> exclude_dirs,
     exclude_when_not_debugging |-> exclude_when_not_debugging]

Configs ==
    {Config("plain", Absent, Absent, Absent),
     Config("attrs", Absent, Absent, Absent),
     Config("plain", Some(<<dPn, dOp>>), Absent, Absent),
     Config("plain", Some(<<AddonDirName \o <<DOT>> \o dPn, AddonDirName \o <<DOT>> \o dOp>>), Absent, Absent),
     Config("plain", Absent, Some(<<dPn>>), Absent),
     Config("plain", Absent, Absent, Some(<<dDebug>>))}

\* The loaders a discovery runs for: debug mode, target_classes left out or
\* given the cache path
FinderLoaders ==
    {ProcLoaderInit(AddonInitFile, c, TRUE) : c \in {Absent, Some(CustomCachePath)}}

FinderCall(loader, c, walk, attrs) ==
    ProcFinderLoad(loader, c.variant, c.dir_priorities, c.exclude_dirs,
                   c.exclude_when_not_debugging, walk, attrs)

\* ProcFinder.load tabulated, each value computed once: first for a fresh
\* Python session, then for the module attributes a discovery leaves behind
FreshTable ==
    [k \in FinderLoaders \X Configs \X Walks |-> FinderCall(k[1], k[2], k[3], NoModAttrs)] @@ <<>>

AttrStates == {NoModAttrs} \cup {FreshTable[k].attrs : k \in DOMAIN FreshTable}

FinderTable ==
    [k \in FinderLoaders \X Configs \X Walks \X AttrStates |-> FinderCall(k[1], k[2], k[3], k[4])] @@ <<>>

FinderResult(loader, c, walk, attrs) ==
    IF <<loader, c, walk, attrs>> \in DOMAIN FinderTable
    THEN FinderTable[<<loader, c, walk, attrs>>]
    ELSE FinderCall(loader, c, walk, attrs)

\* ------------------------------------------------------------------------
\* The module cache (src/core/loader/proc_loader.py, cache_loader.py)
\* ------------------------------------------------------------------------

DefaultCachePath == Join(Join(ScriptsDir, AddonDirName), sCacheName)
CachePaths == {DefaultCachePath, CustomCachePath}

\* src/core/proc_loader.py lines 137-148, __write_cache on the list of
\* (module, classes) its ProcFinder returns: the JSON entries
CacheData(addon_modules) ==
    [i \in 1..Len(addon_modules) |->
        [module |-> addon_modules[i].module, classes |-> addon_modules[i].classes]]

\* src/core/loader/proc_loader.py lines 170-183, __write_cache: the loop at
\* line 174 iterates its argument.  ProcLoader.load (line 144) hands it the
\* Plugins object ProcFinder.load returns, a dataclass without __iter__
\* (addon_module.py lines 19-23): the loop raises TypeError and line 182, which
\* opens the file, is not reached.
WriteCacheRaises(isPluginsObject) == isPluginsObject

\* cache_loader.py lines 47-50: the getattr of each cached class name on its
\* module; mods are the modules import_module gave
CacheClassesLoad(variant, entries, mods) ==
    IF \E i \in 1..Len(entries) : ~mods[i].found
    THEN [exc |-> "ModuleNotFoundError", list |-> <<>>]
    ELSE IF \E i \in 1..Len(entries) : \E k \in 1..Len(entries[i].classes) :
                entries[i].classes[k] \notin FileContents(mods[i].file, variant).members
    THEN [exc |-> "AttributeError", list |-> <<>>]
    ELSE [exc |-> "", list |-> entries]

CachedNames(entries) == [i \in 1..Len(entries) |-> entries[i].module]

\* cache_loader.py lines 28-52, CacheLoader.load: [exc, list], list the
\* AddonModule list it returns
CacheLoaderLoad(loader, variant, path, files) ==
    IF files[path] = Absent
    THEN [exc |-> "FileNotFoundError", list |-> <<>>]
    ELSE CacheClassesLoad(variant, files[path][1], ImportAll(loader, CachedNames(files[path][1])))

\* ------------------------------------------------------------------------
\* State
\* ------------------------------------------------------------------------

VARIABLES
    cfg,            \* the add-on's source: tree variant and the arguments it passes
    modAttrs,       \* attributes the loader has set on the modules of the session
    cache,          \* the cache files on disk: path -> optional JSON entries
    found,          \* the last result of ProcFinder.load, with what it was called on
    lastArgs,       \* the arguments of the last AddonManager(...) call
    mgr,            \* the AddonManager object, kind "none" when there is none
    phase,          \* "none", "constructed", "registered", "unregistered"
    raised,         \* the exception that ended the last call, "" for none
    opLog,          \* what the last call did: imports, reloads, cache accesses, hooks
    lastOp,         \* the last call
    calls,          \* calls made
    regLog,         \* the classes the last register() handed to register_class, in order
    unregLog,       \* the classes the last unregister() handed to unregister_class, in order
    registered,     \* the classes registered with the host
    shortcut_keys,  \* KeymapManager.__shortcut_keys
    hostItems,      \* the keymap items in the host's keymaps
    nextItem,       \* the items the host has created
    properties,     \* PropertiesManager.__properties
    typeAttrs       \* the attributes of the host's types, as <<type, name>>

vars == <<cfg, modAttrs, cache, found, lastArgs, mgr, phase, raised, opLog, lastOp, calls,
          regLog, unregLog, registered, shortcut_keys, hostItems, nextItem,
          properties, typeAttrs>>

loaderVars == <<modAttrs, cache, found, lastArgs>>
hostVars == <<regLog, unregLog, registered>>
keymapVars == <<shortcut_keys, hostItems, nextItem>>
propVars == <<properties, typeAttrs>>

\* ------------------------------------------------------------------------
\* Inputs
\* ------------------------------------------------------------------------

CachePathArgs == {Absent, Some(CustomCachePath)}

NoMgr == [kind |-> "none", debug |-> FALSE, initialized |-> FALSE,
          isList |-> FALSE, addon_modules |-> <<>>, modules |-> <<>>, classes |-> <<>>]

NotFound == [called |-> FALSE, loader |-> ProcLoaderInit(AddonInitFile, Absent, TRUE),
             attrs |-> NoModAttrs, addon_modules |-> <<>>, plugins |-> NoPlugins]

NoArgs == [debug |-> FALSE, enabled |-> FALSE, cache_path |-> Absent]

\* The host types properties are attached to, and the names the add-on gives
PropTypes == {"Scene", "Object"}
PropNames == {<<"x">>, <<"y">>}

\* src/core/properties_manager.py line 66: f"{self.__name}_{name}", __name being
\* the add-on's name (src/core/addon_manager.py lines 53, 58)
NameWithPrefix(name) == AddonDirName \o <<"_">> \o name

\* What the host's types carry before the manager adds anything: Scene has an
\* attribute of the name the add-on's property y gets
HostAttrs == {<<"Scene", NameWithPrefix(<<"y">>)>>}

Init ==
    /\ cfg \in Configs
    /\ modAttrs = NoModAttrs
    /\ cache = [p \in CachePaths |-> Absent]
    /\ found = NotFound
    /\ lastArgs = NoArgs
    /\ mgr = NoMgr
    /\ phase = "none"
    /\ raised = ""
    /\ opLog = <<>>
    /\ lastOp = "init"
    /\ calls = 0
    /\ regLog = <<>>
    /\ unregLog = <<>>
    /\ registered = {}
    /\ shortcut_keys = <<>>
    /\ hostItems = {}
    /\ nextItem = 0
    /\ properties = <<>>
    /\ typeAttrs = HostAttrs

\* ------------------------------------------------------------------------
\* ProcLoader.load
\* ------------------------------------------------------------------------

\* An entry of opLog
Ev(op, arg) == [op |-> op, arg |-> arg]

\* What found becomes when ProcFinder.load has returned r
Found(loader, attrs, r) ==
    [called |-> TRUE, loader |-> loader, attrs |-> attrs,
     addon_modules |-> r.addon_modules, plugins |-> r.plugins]

\* src/core/loader/proc_loader.py lines 139-146, the debug branch of
\* ProcLoader.load, r what ProcFinder.load did
DebugLoad(loader, attrs, was, r) ==
    [exc |-> IF r.exc # "" THEN r.exc
             ELSE IF WriteCacheRaises(TRUE) THEN "TypeError" ELSE "",
     isList |-> FALSE,
     addon_modules |-> r.addon_modules,
     plugins |-> r.plugins,
     attrs |-> r.attrs,
     found |-> IF r.exc = "" THEN Found(loader, attrs, r) ELSE was,
     log |-> <<Ev("discover", <<>>)>>]

\* lines 147-148, the other branch, c what CacheLoader.load did
CachedLoad(loader, attrs, was, c) ==
    [exc |-> c.exc,
     isList |-> TRUE,
     addon_modules |-> c.list,
     plugins |-> NoPlugins,
     attrs |-> attrs,
     found |-> was,
     log |-> <<Ev("cache_read", loader.CACHE_PATH)>>]

\* src/core/loader/proc_loader.py lines 118-148, ProcLoader.load, for the loader
\* AddonManager.__load builds.  The result is [exc, isList, addon_modules,
\* plugins, attrs, found, log]: isList says the value returned is the list of
\* CacheLoader.load and not a Plugins object.
ProcLoaderLoad(loader, walk, attrs, files, was) ==
    IF loader.IS_DEBUG_MODE
    THEN DebugLoad(loader, attrs, was, FinderResult(loader, cfg, walk, attrs))
    ELSE CachedLoad(loader, attrs, was,
                    CacheLoaderLoad(loader, cfg.variant, loader.CACHE_PATH, files))

\* src/core/addon_manager.py lines 144-152, __load: the cache path goes to
\* ProcLoader as its second positional argument, which is target_classes.
AddonManagerLoad(is_debug_mode, cache_path, walk, attrs, files, was) ==
    ProcLoaderLoad(ProcLoaderInit(AddonInitFile, cache_path, is_debug_mode),
                   walk, attrs, files, was)

\* ------------------------------------------------------------------------
\* AddonManager (src/core/addon_manager.py, src/manager/core/addon_manager.py)
\* ------------------------------------------------------------------------

\* reload() going on in debug mode whether or not the add-on was enabled before
ReloadGuardDebugOnly(is_debug_mode, is_initialized) == is_debug_mode

\* line 110 (line 67 of the src/manager/core version): what reload() goes on for
ReloadGuard(is_debug_mode, is_initialized) == is_debug_mode /\ is_initialized

\* self.__plugins.modules and self.__plugins.classes: a list has neither
\* attribute, the access raises AttributeError.
PluginsAccessRaises(m) == m.kind = "core" /\ m.isList

\* lines 113-114: reload(mdl) for each loaded module, in order
ReloadEvents(modules) == [i \in 1..Len(modules) |-> Ev("reload", modules[i])]

Called(op, exc, log) ==
    /\ calls < MaxCalls
    /\ calls' = calls + 1
    /\ lastOp' = op
    /\ raised' = exc
    /\ opLog' = log

\* The AddonManager object whose __plugins is what load returned
Manager(is_debug_mode, enabled, load) ==
    [kind |-> "core", debug |-> is_debug_mode, initialized |-> enabled,
     isList |-> load.isList, addon_modules |-> load.addon_modules,
     modules |-> load.plugins.modules, classes |-> load.plugins.classes]

\* The constructor ends with the manager made, or with load.exc and no manager
Constructed(is_debug_mode, enabled, load, exc, log) ==
    /\ Called("construct", exc, log)
    /\ modAttrs' = load.attrs
    /\ found' = load.found
    /\ mgr' = IF exc = "" THEN Manager(is_debug_mode, enabled, load) ELSE NoMgr
    /\ phase' = IF exc = "" THEN "constructed" ELSE "none"

\* lines 57-64, first what the __load of line 57 did, again what the one of
\* reload() does when reload() gets to it
ConstructLoaded(is_debug_mode, enabled, first, again) ==
    IF first.exc # ""
    THEN /\ Constructed(is_debug_mode, enabled, first, first.exc, first.log)
         /\ UNCHANGED <<shortcut_keys, properties>>
    ELSE /\ shortcut_keys' = <<>>
         /\ properties' = <<>>
         /\ IF ~ReloadGuard(is_debug_mode, enabled)
            THEN Constructed(is_debug_mode, enabled, first, "", first.log)
            ELSE IF first.isList
            THEN Constructed(is_debug_mode, enabled, first, "AttributeError", first.log)
            ELSE Constructed(is_debug_mode, enabled, again, again.exc,
                             first.log \o ReloadEvents(first.plugins.modules) \o again.log)

\* The __load of reload(), after the one of line 57 gave first
LoadAgain(is_debug_mode, cache_path, walk, first) ==
    AddonManagerLoad(is_debug_mode, cache_path, walk, first.attrs, cache, first.found)

ConstructFirst(is_debug_mode, enabled, cache_path, walk, first) ==
    ConstructLoaded(is_debug_mode, enabled, first,
                    LoadAgain(is_debug_mode, cache_path, walk, first))

\* lines 26-64: AddonManager(file, locals(), ..., is_debug_mode, cache_path),
\* enabled saying "__addon_enabled__" is in local_symbols.  The reload() of
\* line 62 is part of it.
Construct(is_debug_mode, enabled, cache_path, walk) ==
    /\ phase # "registered"
    /\ lastArgs' = [debug |-> is_debug_mode, enabled |-> enabled, cache_path |-> cache_path]
    /\ UNCHANGED <<cfg, cache, hostVars, hostItems, nextItem, typeAttrs>>
    /\ ConstructFirst(is_debug_mode, enabled, cache_path, walk,
            AddonManagerLoad(is_debug_mode, cache_path, walk, modAttrs, cache, found))

\* src/core/proc_loader.py lines 99-121, load() with r what its ProcFinder did
\* and c what its CacheLoader did
CoreLoaded(loader, r, c) ==
    IF loader.IS_DEBUG_MODE
    THEN /\ modAttrs' = r.attrs
         /\ IF r.exc # ""
            THEN /\ Called("load", r.exc, <<Ev("discover", <<>>)>>)
                 /\ UNCHANGED cache
            ELSE /\ Called("load", "", <<Ev("discover", <<>>), Ev("cache_write", loader.CACHE_PATH)>>)
                 /\ cache' = [cache EXCEPT ![loader.CACHE_PATH] = Some(CacheData(r.addon_modules))]
    ELSE /\ Called("load", c.exc, <<Ev("cache_read", loader.CACHE_PATH)>>)
         /\ UNCHANGED <<modAttrs, cache>>

CoreLoader(loader, walk) ==
    CoreLoaded(loader, FinderResult(loader, cfg, walk, modAttrs),
               CacheLoaderLoad(loader, cfg.variant, loader.CACHE_PATH, cache))

\* src/core/proc_loader.py lines 99-121, ProcLoader(file, is_debug_mode=...).load
\* of the single-file loader: the same discovery (its ProcFinder, lines 157-293,
\* is the code of loader/proc_finder.py with "_addon_proc_" attribute names),
\* returning the list of (module, classes) that its __write_cache, lines
\* 137-148, can iterate.
CoreProcLoaderLoad(is_debug_mode, walk) ==
    /\ UNCHANGED <<cfg, found, lastArgs, mgr, phase, hostVars, keymapVars, propVars>>
    /\ CoreLoader(ProcLoaderInit(AddonInitFile, Absent, is_debug_mode), walk)

\* ------------------------------------------------------------------------
\* KeymapManager (src/core/keymap_manager.py)
\* ------------------------------------------------------------------------

\* src/core/proc_loader.py lines 95-97, ProcLoader.is_disabled, the one
\* keymap_manager.py imports
IsDisabled(c) == ClassHasAttr(c, "_addon_proc_is_disabled")

\* lines 94-100, delete(subject) for a (keymap, item) pair: st is [keys, items,
\* exc, ret], the tracked list, the host's items, the exception that leaves the
\* method and the value it returns.  Line 96 comes first: the host takes the
\* item out of its keymap, and refuses an item it has removed before with an
\* error that is not a ValueError.  Line 97 raises ValueError for a pair that is
\* not tracked, which the method turns into False.
DeletePair(st, kms) ==
    IF kms \notin st.items
    THEN [st EXCEPT !.exc = "ReferenceError"]
    ELSE [keys |-> ListRemove(st.keys, kms), items |-> st.items \ {kms},
          exc |-> "", ret |-> \E i \in 1..Len(st.keys) : st.keys[i] = kms]

RECURSIVE UnregisterLoop(_, _)
\* lines 112-113: the for loop reads self.__shortcut_keys by index while
\* delete() removes from that list
UnregisterLoop(st, i) ==
    IF i > Len(st.keys) \/ st.exc # "" THEN st
    ELSE UnregisterLoop(DeletePair(st, st.keys[i]), i + 1)

\* A call of delete() or unregister() starts from this
KeymapState(keys, items) == [keys |-> keys, items |-> items, exc |-> "", ret |-> FALSE]

\* Line 115 after the loop st is the end of
KeymapCleared(st) == IF st.exc # "" THEN st ELSE [st EXCEPT !.keys = <<>>]

\* lines 109-115, KeymapManager.unregister
KeymapUnregister(keys, items) == KeymapCleared(UnregisterLoop(KeymapState(keys, items), 1))

\* The operators a Key may name
KeyOperators == {"A1", "D1"}

\* lines 41-83, KeymapManager.add(keys): keys a list of Key by their operator,
\* has_config saying the host has an add-on key configuration
NewItems(ops, n) ==
    LET kept == SelectSeq(ops, LAMBDA c : ~IsDisabled(c))
    IN [i \in 1..Len(kept) |-> [id |-> n + i, idname |-> kept[i]]]

KmAdded(new) ==
    /\ shortcut_keys' = shortcut_keys \o new
    /\ hostItems' = hostItems \cup {new[i] : i \in 1..Len(new)}
    /\ nextItem' = nextItem + Len(new)

KmAdd(ops, has_config) ==
    /\ nextItem + Len(ops) <= MaxKeys
    /\ Called("km_add", "", <<>>)
    /\ UNCHANGED <<cfg, loaderVars, mgr, phase, hostVars, propVars>>
    /\ IF ~has_config
       THEN UNCHANGED keymapVars
       ELSE KmAdded(NewItems(ops, nextItem))

\* What a call that ended as st leaves of the tracked list and the host's items
KmLeft(st) ==
    /\ shortcut_keys' = st.keys
    /\ hostItems' = st.items

KmUnregistered(st) ==
    /\ Called("km_unregister", st.exc, <<>>)
    /\ KmLeft(st)

KmUnregister ==
    /\ UNCHANGED <<cfg, loaderVars, mgr, phase, hostVars, nextItem, propVars>>
    /\ KmUnregistered(KeymapUnregister(shortcut_keys, hostItems))

\* lines 101-107, delete(subject) for an operator class: the loop over the
\* tracked pairs from the i-th on.  It reads the idname of each tracked item,
\* which the host refuses for an item it has removed, and takes the matching
\* items out of the host's keymap; the tracked list is not written.
RECURSIVE DeleteOperatorLoop(_, _, _)
DeleteOperatorLoop(st, subject, i) ==
    IF i > Len(st.keys) \/ st.exc # "" THEN st
    ELSE IF st.keys[i] \notin st.items
    THEN [st EXCEPT !.exc = "ReferenceError"]
    ELSE IF st.keys[i].idname # subject
    THEN DeleteOperatorLoop(st, subject, i + 1)
    ELSE DeleteOperatorLoop([st EXCEPT !.items = st.items \ {st.keys[i]}, !.ret = TRUE],
                            subject, i + 1)

\* lines 85-107, KeymapManager.delete(subject): a tuple goes to the first
\* branch, an operator class to the second
KeymapDelete(keys, items, subject, is_tuple) ==
    IF is_tuple THEN DeletePair(KeymapState(keys, items), subject)
    ELSE DeleteOperatorLoop(KeymapState(keys, items), subject, 1)

\* What delete() hands back when it ended as st
Returned(st) == IF st.exc # "" THEN <<>> ELSE <<Ev("return", st.ret)>>

KmDeleted(op, subject, st) ==
    /\ Called(op, st.exc, <<Ev("subject", subject)>> \o Returned(st))
    /\ KmLeft(st)

\* delete(operator) for an operator class of the add-on
KmDeleteOperator(subject) ==
    /\ UNCHANGED <<cfg, loaderVars, mgr, phase, hostVars, nextItem, propVars>>
    /\ KmDeleted("km_delete_operator", subject,
                 KeymapDelete(shortcut_keys, hostItems, subject, FALSE))

\* The (keymap, item) pairs a caller can hold: the ones the host has and the
\* ones the manager tracks
KnownPairs == hostItems \cup {shortcut_keys[i] : i \in 1..Len(shortcut_keys)}

\* delete((keymap, item))
KmDeletePair(subject) ==
    /\ UNCHANGED <<cfg, loaderVars, mgr, phase, hostVars, nextItem, propVars>>
    /\ KmDeleted("km_delete_pair", subject,
                 KeymapDelete(shortcut_keys, hostItems, subject, TRUE))

\* ------------------------------------------------------------------------
\* PropertiesManager (src/core/properties_manager.py)
\* ------------------------------------------------------------------------

\* src/core/loader/proc_loader.py lines 114-116, ProcLoader.is_disabled, the one
\* properties_manager.py imports
LoaderIsDisabled(c) == ClassHasAttr(c, "addon_proc_is_disabled")

\* hasattr(prop_type, name) on a host type
HasAttr(attrs, prop_type, name) == <<prop_type, name>> \in attrs

\* The check of line 68 finding every name free
NoConflict(attrs, prop_type, name) == FALSE

\* line 68: the name conflict add() looks for before it attaches a property
NameConflict(attrs, prop_type, name) == HasAttr(attrs, prop_type, name)

\* lines 11-18, Property(prop_type, prop, name): the object, after the setattr
\* of line 18
Property(prop_type, op, name) == [prop_type |-> prop_type, name |-> name, prop |-> op]

\* A call of the manager starts from this: props the tracked list, attrs the
\* host's attributes, out what the call has collected, skipped the names it
\* passed over because the host type had them already
PropsState(props, attrs) ==
    [props |-> props, attrs |-> attrs, out |-> <<>>, skipped |-> <<>>, exc |-> "", ret |-> FALSE]

\* lines 63-71: the loop of add() from the i-th property on
RECURSIVE AddLoop(_, _, _, _)
AddLoop(st, prop_type, props, i) ==
    IF i > Len(props) THEN st
    ELSE IF LoaderIsDisabled(props[i][2])
    THEN AddLoop(st, prop_type, props, i + 1)
    ELSE IF NameConflict(st.attrs, prop_type, NameWithPrefix(props[i][1]))
    THEN AddLoop([st EXCEPT !.skipped = Append(@, NameWithPrefix(props[i][1]))],
                 prop_type, props, i + 1)
    ELSE AddLoop([st EXCEPT
                    !.out = Append(@, Property(prop_type, props[i][2], NameWithPrefix(props[i][1]))),
                    !.attrs = @ \cup {<<prop_type, NameWithPrefix(props[i][1])>>}],
                 prop_type, props, i + 1)

\* line 73: self.__properties += register_props
PropsAdded(st) == [st EXCEPT !.props = @ \o st.out]

\* lines 46-75, PropertiesManager.add(prop_type, properties)
PropertiesAdd(tracked, attrs, prop_type, props) ==
    PropsAdded(AddLoop(PropsState(tracked, attrs), prop_type, props, 1))

\* delattr(prop.prop_type, prop.name): AttributeError when the type has no such
\* attribute
DelAttr(st, prop) ==
    IF ~HasAttr(st.attrs, prop.prop_type, prop.name)
    THEN [st EXCEPT !.exc = "AttributeError"]
    ELSE [st EXCEPT !.attrs = @ \ {<<prop.prop_type, prop.name>>}, !.out = Append(@, prop)]

\* lines 116-121: the first tracked property of the name, once found
DeleteFound(st, prop) ==
    IF st.exc # "" THEN st
    ELSE [st EXCEPT !.props = ListRemove(@, prop), !.ret = TRUE]

\* lines 104-123, PropertiesManager.delete(prop_name)
PropertiesDelete(tracked, attrs, prop_name) ==
    LET hits == {i \in 1..Len(tracked) : tracked[i].name = prop_name}
    IN IF hits = {} THEN PropsState(tracked, attrs)
       ELSE DeleteFound(DelAttr(PropsState(tracked, attrs),
                                tracked[CHOOSE k \in hits : \A j \in hits : k <= j]),
                        tracked[CHOOSE k \in hits : \A j \in hits : k <= j])

\* lines 127-128: the loop of unregister() from the i-th tracked property on
RECURSIVE PropsUnregisterLoop(_, _)
PropsUnregisterLoop(st, i) ==
    IF i > Len(st.props) \/ st.exc # "" THEN st
    ELSE PropsUnregisterLoop(DelAttr(st, st.props[i]), i + 1)

\* The loop of unregister() leaving the tracked list as it is
PropsKept(st) == st

\* line 130: self.__properties.clear()
PropsCleared(st) == IF st.exc # "" THEN st ELSE [st EXCEPT !.props = <<>>]

\* lines 125-130, PropertiesManager.unregister
PropertiesUnregister(tracked, attrs) ==
    PropsCleared(PropsUnregisterLoop(PropsState(tracked, attrs), 1))

\* What a call that ended as st leaves of the tracked list and the host's types
PmLeft(st) ==
    /\ properties' = st.props
    /\ typeAttrs' = st.attrs

\* The classes a property may point to: a PropertyGroup and a disabled class
PropOperators == {"P1", "B1"}

\* The property lists add() is called with
PropLists ==
    {<<<<n, c>>>> : n \in PropNames, c \in PropOperators}
        \cup {<<<<n, "P1">>, <<k, "P1">>>> : n \in PropNames, k \in PropNames}

\* A call of the properties manager
PropsCalled(op, exc, log) ==
    /\ calls < MaxPropCalls
    /\ calls' = calls + 1
    /\ lastOp' = op
    /\ raised' = exc
    /\ opLog' = log

\* add(prop_type, properties), called by the add-on's code
PmAdd(prop_type, props) ==
    LET st == PropertiesAdd(properties, typeAttrs, prop_type, props)
    IN /\ UNCHANGED <<cfg, loaderVars, mgr, phase, hostVars, keymapVars>>
       /\ PropsCalled("pm_add", st.exc,
                      <<Ev("add", <<prop_type, props>>), Ev("skip", st.skipped), Ev("return", st.out)>>)
       /\ PmLeft(st)

\* delete(prop_name)
PmDelete(prop_name) ==
    LET st == PropertiesDelete(properties, typeAttrs, prop_name)
    IN /\ UNCHANGED <<cfg, loaderVars, mgr, phase, hostVars, keymapVars>>
       /\ PropsCalled("pm_delete", st.exc, <<Ev("name", prop_name)>> \o Returned(st))
       /\ PmLeft(st)

\* unregister()
PmUnregister ==
    LET st == PropertiesUnregister(properties, typeAttrs)
    IN /\ UNCHANGED <<cfg, loaderVars, mgr, phase, hostVars, keymapVars>>
       /\ PropsCalled("pm_unregister", st.exc, <<Ev("delattr", st.out)>>)
       /\ PmLeft(st)

\* ------------------------------------------------------------------------
\* AddonManager: register, unregister, reload
\* ------------------------------------------------------------------------

ModName(dir, file) == AddonDirName \o <<DOT>> \o dir \o <<DOT>> \o file

\* src/manager/core/proc_loader.py lines 94-105, ProcLoader.load of the
\* src/manager/core version: [modules, classes].  Its class list is built from
\* a dict keyed by class, so no class is in it twice; any order of the modules
\* and of the classes is taken as possible.
LegacyLoads ==
    {[modules |-> ms, classes |-> cs] :
        ms \in Perms({ModName(dOp, fA), ModName(dPn, fP)}),
        cs \in Perms({"A1", "A3", "P1"})}

\* hasattr(mdl, identifier) for the hooks register() and unregister()
HasHook(name) ==
    LET mdl == ImportModule(ScriptsDir, name)
    IN mdl.found /\ FileContents(mdl.file, cfg.variant).hooks

\* lines 120-142, __call(identifier): the hooks invoked, in module order
CallEvents(modules, identifier) ==
    LET with == SelectSeq(modules, HasHook)
    IN [i \in 1..Len(with) |-> Ev(identifier, with[i])]

\* hasattr(bpy.types, cls.bl_idname): the host lists a registered class there by
\* name, which is the bl_idname of a panel, menu or property group and never
\* that of an operator
HostHasType(c, reg) == c \in reg /\ ClassInfo(c).base # "Operator"

\* lines 80-87: the classes handed to register_class, in order
RegisterList(classes, reg) ==
    SelectSeq(SelectSeq(classes, LAMBDA c : ~HostHasType(c, reg)),
              LAMBDA c : ~(ClassInfo(c).base = "PropertyGroup" /\ c \in reg))

\* The classes in the order of the list
Forward(s) == [i \in 1..Len(s) |-> s[i]]

\* line 96: reversed(self.__plugins.classes)
Reversed(s) == [i \in 1..Len(s) |-> s[Len(s) + 1 - i]]

SeqRange(s) == {s[i] : i \in 1..Len(s)}

\* src/manager/core/addon_manager.py lines 21-41: AddonManager(path,
\* target_dirs, locals(), ..., is_debug_mode); first and again are what its
\* loader returns to the __load of line 37 and to the one of reload()
LegacyConstruct(is_debug_mode, enabled, first, again) ==
    LET goesOn == ReloadGuard(is_debug_mode, enabled)
        load == IF goesOn THEN again ELSE first
    IN /\ phase # "registered"
       /\ Called("construct", "",
                 <<Ev("discover", <<>>)>> \o
                 (IF goesOn THEN ReloadEvents(first.modules) \o <<Ev("discover", <<>>)>> ELSE <<>>))
       /\ mgr' = [kind |-> "legacy", debug |-> is_debug_mode, initialized |-> enabled,
                  isList |-> FALSE, addon_modules |-> <<>>,
                  modules |-> load.modules, classes |-> load.classes]
       /\ phase' = "constructed"
       /\ UNCHANGED <<cfg, loaderVars, hostVars, keymapVars, propVars>>

\* lines 113-118, again what the __load of line 116 did
Reloaded(again) ==
    /\ Called("reload", again.exc, ReloadEvents(mgr.modules) \o again.log)
    /\ modAttrs' = again.attrs
    /\ found' = again.found
    /\ mgr' = IF again.exc # "" THEN mgr ELSE Manager(mgr.debug, mgr.initialized, again)

\* lines 101-118 (src/manager/core: 63-73), reload(): walk is the directory
\* listing the new discovery meets, load what the src/manager/core loader returns
Reload(walk, load) ==
    /\ mgr.kind # "none"
    /\ phase # "registered"
    /\ UNCHANGED <<cfg, cache, lastArgs, phase, hostVars, keymapVars, propVars>>
    /\ IF ~ReloadGuard(mgr.debug, mgr.initialized)
       THEN /\ Called("reload", "", <<>>)
            /\ UNCHANGED <<mgr, modAttrs, found>>
       ELSE IF PluginsAccessRaises(mgr)
       THEN /\ Called("reload", "AttributeError", <<>>)
            /\ UNCHANGED <<mgr, modAttrs, found>>
       ELSE IF mgr.kind = "legacy"
       THEN /\ Called("reload", "", ReloadEvents(mgr.modules) \o <<Ev("discover", <<>>)>>)
            /\ mgr' = [mgr EXCEPT !.modules = load.modules, !.classes = load.classes]
            /\ UNCHANGED <<modAttrs, found>>
       ELSE Reloaded(AddonManagerLoad(mgr.debug, lastArgs.cache_path, walk, modAttrs, cache, found))

\* lines 74-92 (src/manager/core: 43-54), register(), with the
\* __unregister_utils of lines 154-160 when the add-on was enabled before
Register ==
    LET utils == KeymapUnregister(shortcut_keys, hostItems)
        list == RegisterList(mgr.classes, registered)
    IN /\ mgr.kind # "none"
       /\ phase \in {"constructed", "unregistered"}
       /\ UNCHANGED <<cfg, loaderVars, mgr, unregLog, nextItem>>
       /\ IF mgr.initialized /\ ~PluginsAccessRaises(mgr)
          THEN PmLeft(PropertiesUnregister(properties, typeAttrs))
          ELSE UNCHANGED propVars
       /\ IF PluginsAccessRaises(mgr)
          THEN /\ Called("register", "AttributeError", <<>>)
               /\ UNCHANGED <<phase, regLog, registered, shortcut_keys, hostItems>>
          ELSE /\ Called("register", "",
                         (IF mgr.initialized THEN CallEvents(mgr.modules, "unregister") ELSE <<>>)
                            \o CallEvents(mgr.modules, "register"))
               /\ shortcut_keys' = IF mgr.initialized THEN utils.keys ELSE shortcut_keys
               /\ hostItems' = IF mgr.initialized THEN utils.items ELSE hostItems
               /\ regLog' = list
               /\ registered' = registered \cup SeqRange(list)
               /\ phase' = "registered"

\* lines 94-99 (src/manager/core: 56-61), unregister()
Unregister ==
    LET utils == KeymapUnregister(shortcut_keys, hostItems)
        list == Reversed(mgr.classes)
    IN /\ mgr.kind # "none"
       /\ phase = "registered"
       /\ UNCHANGED <<cfg, loaderVars, mgr, regLog, nextItem>>
       /\ IF PluginsAccessRaises(mgr)
          THEN UNCHANGED propVars
          ELSE PmLeft(PropertiesUnregister(properties, typeAttrs))
       /\ IF PluginsAccessRaises(mgr)
          THEN /\ Called("unregister", "AttributeError", <<>>)
               /\ UNCHANGED <<phase, unregLog, registered, shortcut_keys, hostItems>>
          ELSE /\ Called("unregister", "", CallEvents(mgr.modules, "unregister"))
               /\ unregLog' = list
               /\ registered' = registered \ SeqRange(list)
               /\ shortcut_keys' = utils.keys
               /\ hostItems' = utils.items
               /\ phase' = "unregistered"

\* ------------------------------------------------------------------------
\* Specifications
\* ------------------------------------------------------------------------

OpLists == {<<a>> : a \in KeyOperators} \cup {<<a, b>> : a \in KeyOperators, b \in KeyOperators}

\* The directory listings a call may meet: the walk runs in debug mode only
WalksOf(is_debug_mode) == IF is_debug_mode THEN Walks ELSE {SortedWalk}

\* The add-on built on src/core: the single-file loader and the AddonManager of
\* src/core/addon_manager.py
Next ==
    \/ \E d \in BOOLEAN : \E w \in WalksOf(d) : CoreProcLoaderLoad(d, w)
    \/ \E d \in BOOLEAN, e \in BOOLEAN, c \in CachePathArgs : \E w \in WalksOf(d) : Construct(d, e, c, w)
    \/ \E w \in WalksOf(mgr.debug) : Reload(w, CHOOSE l \in LegacyLoads : TRUE)
    \/ Register

Spec == Init /\ [][Next]_vars

\* The add-on built on src/manager/core, with the keymap manager
NextLifecycle ==
    \/ \E d \in BOOLEAN, e \in BOOLEAN, f \in LegacyLoads, a \in LegacyLoads : LegacyConstruct(d, e, f, a)
    \/ \E l \in LegacyLoads : Reload(SortedWalk, l)
    \/ Register
    \/ Unregister
    \/ \E ops \in OpLists, h \in BOOLEAN : KmAdd(ops, h)
    \/ KmUnregister

\* The src/manager/core manager takes none of the arguments cfg holds
InitLifecycle == Init /\ cfg = Config("plain", Absent, Absent, Absent)

SpecLifecycle == InitLifecycle /\ [][NextLifecycle]_vars

\* The keymap manager on its own, called by the add-on's code
NextKeymap ==
    \/ \E ops \in OpLists, h \in BOOLEAN : KmAdd(ops, h)
    \/ \E subject \in KeyOperators : KmDeleteOperator(subject)
    \/ \E subject \in KnownPairs : KmDeletePair(subject)
    \/ KmUnregister

SpecKeymap == InitLifecycle /\ [][NextKeymap]_vars

\* The properties manager on its own, called by the add-on's code
NextProperties ==
    \/ \E t \in PropTypes, props \in PropLists : PmAdd(t, props)
    \/ \E n \in PropNames : PmDelete(NameWithPrefix(n))
    \/ PmUnregister

SpecProperties == InitLifecycle /\ [][NextProperties]_vars

\* ------------------------------------------------------------------------
\* Properties
\* ------------------------------------------------------------------------

\* The module named name is under the root-level folder dir of the add-on
UnderFolder(name, dir) == StartsWith(name, AddonDirName \o <<DOT>> \o dir \o <<DOT>>)

\* The root-level folder an entry of dir_priorities stands for, given by its
\* name or by its module path
ListedFolder(entry) ==
    IF StartsWith(entry, AddonDirName \o <<DOT>>)
    THEN SubSeq(entry, Len(AddonDirName) + 2, Len(entry))
    ELSE entry

\* The place of the folder of module name in the list: Len(list) + 1 for a
\* module of a folder that is not listed
ListedAt(name, list) ==
    LET hits == {k \in 1..Len(list) : UnderFolder(name, ListedFolder(list[k]))}
    IN IF hits = {} THEN Len(list) + 1 ELSE CHOOSE k \in hits : \A j \in hits : k <= j

\* C1: the load order ProcFinder.load returns is the same for every order in
\* which the directory walk may list the folders of the add-on.
C1_SameForEveryWalk ==
    found.called =>
        \A w \in Walks :
            FinderResult(found.loader, cfg, w, found.attrs).plugins = found.plugins

\* C2: the classes unregister() hands to unregister_class come in the reverse
\* of the order in which register() handed them to register_class: of two
\* classes registered one before the other, the later one is unregistered first.
C2_ReverseOrder ==
    (lastOp = "unregister" /\ raised = "") =>
        \A i, j \in 1..Len(regLog) :
            i < j =>
                \E a, b \in 1..Len(unregLog) :
                    /\ a < b
                    /\ unregLog[a] = regLog[j]
                    /\ unregLog[b] = regLog[i]

C2_Witness ==
    /\ lastOp = "unregister"
    /\ raised = ""
    /\ Len(regLog) >= 3
    /\ Len(unregLog) >= 3

\* C3: a class decorated with disable is not in the class list the loader
\* returns, and register() hands no such class to register_class.
C3_DisabledNeverLoaded ==
    /\ found.called =>
        \A i \in 1..Len(found.plugins.classes) : ~ClassInfo(found.plugins.classes[i]).dis
    /\ \A i \in 1..Len(regLog) : ~ClassInfo(regLog[i]).dis

\* C4: within a module the classes come in ascending order of the value given
\* to priority, and a class that was given none comes after every class that was
\* given one.
C4_PriorityOrder ==
    found.called =>
        \A m \in 1..Len(found.addon_modules) :
            \A i, j \in 1..Len(found.addon_modules[m].classes) :
                i < j =>
                    LET pi == ClassInfo(found.addon_modules[m].classes[i]).pr
                        pj == ClassInfo(found.addon_modules[m].classes[j]).pr
                    IN /\ pi = Absent => pj = Absent
                       /\ (pi # Absent /\ pj # Absent) => pi[1] <= pj[1]

\* C5: with exclude_dirs given, no module under a listed folder is in the
\* result, and no class defined in such a folder is.
C5_ExcludedNotLoaded ==
    (found.called /\ cfg.exclude_dirs # Absent) =>
        \A k \in 1..Len(cfg.exclude_dirs[1]) :
            /\ \A i \in 1..Len(found.plugins.modules) :
                    ~UnderFolder(found.plugins.modules[i], cfg.exclude_dirs[1][k])
            /\ \A i \in 1..Len(found.plugins.classes) :
                    ClassInfo(found.plugins.classes[i]).home[1] # cfg.exclude_dirs[1][k]

\* C6: an AddonManager made with is_debug_mode false holds no module under a
\* folder listed in exclude_when_not_debugging, also when its modules come
\* from the cache an earlier debug-mode run wrote.
C6_DebugOnlyNotLoaded ==
    (mgr.kind = "core" /\ ~mgr.debug /\ cfg.exclude_when_not_debugging # Absent) =>
        \A k \in 1..Len(cfg.exclude_when_not_debugging[1]) :
            \A i \in 1..Len(mgr.addon_modules) :
                ~UnderFolder(mgr.addon_modules[i].module, cfg.exclude_when_not_debugging[1][k])

\* C7: with dir_priorities given and no package priority in the add-on, the
\* modules of a listed folder come in the order the folders are listed, and the
\* modules of the folders that are not listed come after them.
C7_DirPriorities ==
    (found.called /\ cfg.dir_priorities # Absent /\ cfg.variant = "plain") =>
        \A i, j \in 1..Len(found.plugins.modules) :
            i < j =>
                ListedAt(found.plugins.modules[i], cfg.dir_priorities[1])
                    <= ListedAt(found.plugins.modules[j], cfg.dir_priorities[1])

\* C8: the cache file AddonManager(...) reads or writes is the one at
\* cache_path when cache_path is given, and <add-on folder>/addon_modules.json
\* when it is not.
C8_CachePath ==
    lastOp = "construct" =>
        \A i \in 1..Len(opLog) :
            opLog[i].op \in {"cache_read", "cache_write"} =>
                opLog[i].arg = IF lastArgs.cache_path # Absent THEN lastArgs.cache_path[1]
                               ELSE DefaultCachePath

\* C9: a reload() step does nothing (no module is reloaded, nothing is
\* discovered, the loaded modules and classes stay) unless the manager is in
\* debug mode and the add-on was enabled before; when both hold it reloads
\* every loaded module, in order, and runs the discovery after that.
C9_Reload ==
    [][(lastOp' = "reload" /\ calls' = calls + 1 /\ raised' = "") =>
            IF mgr.debug /\ mgr.initialized
            THEN opLog' = ReloadEvents(mgr.modules) \o <<Ev("discover", <<>>)>>
            ELSE opLog' = <<>> /\ mgr' = mgr /\ modAttrs' = modAttrs]_vars

C9_Witness ==
    /\ lastOp = "reload"
    /\ raised = ""
    /\ mgr.debug
    /\ mgr.initialized
    /\ Len(opLog) = 3
    /\ opLog[3].op = "discover"

\* C10: after KeymapManager.unregister() no keymap item added through the
\* manager is left in the host's keymaps, and the manager tracks none.
C10_AllDeleted ==
    lastOp = "km_unregister" => (hostItems = {} /\ shortcut_keys = <<>>)

\* C11: KeymapManager.delete(operator) that returns leaves no tracked pair of
\* that operator, neither in the host's keymap nor in the manager's tracked
\* list, and returns True exactly when the manager tracked such a pair.
C11_DeleteOperator ==
    [][(lastOp' = "km_delete_operator" /\ raised' = "") =>
          /\ \A i \in 1..Len(shortcut_keys) :
                shortcut_keys[i].idname = opLog'[1].arg =>
                    /\ shortcut_keys[i] \notin hostItems'
                    /\ \A j \in 1..Len(shortcut_keys') : shortcut_keys'[j] # shortcut_keys[i]
          /\ opLog'[2].arg = (\E i \in 1..Len(shortcut_keys) :
                                 shortcut_keys[i].idname = opLog'[1].arg)]_vars

\* C12: KeymapManager.delete((keymap, item)) that returns gives True exactly
\* when the manager tracked the pair, and a call that gives False has changed
\* neither the host's keymaps nor the tracked list.
C12_DeletePair ==
    [][(lastOp' = "km_delete_pair" /\ raised' = "") =>
          /\ opLog'[2].arg = (\E i \in 1..Len(shortcut_keys) : shortcut_keys[i] = opLog'[1].arg)
          /\ ~opLog'[2].arg => (hostItems' = hostItems /\ shortcut_keys' = shortcut_keys)]_vars

\* The add() that has just returned met a name conflict: one of its properties,
\* not disabled, has a name the host type carried before the call
AddConflict ==
    /\ lastOp' = "pm_add"
    /\ \E i \in 1..Len(opLog'[1].arg[2]) :
          /\ ~LoaderIsDisabled(opLog'[1].arg[2][i][2])
          /\ <<opLog'[1].arg[1], NameWithPrefix(opLog'[1].arg[2][i][1])>> \in typeAttrs

C14_AllPropertiesDeleted ==
    lastOp = "pm_unregister" =>
        /\ raised = ""
        /\ properties = <<>>
        /\ typeAttrs \ HostAttrs = {}

\* unregister() after several add() and delete() calls, with two properties to
\* delete
C14_Witness ==
    /\ lastOp = "pm_unregister"
    /\ calls >= 4
    /\ Len(opLog[1].arg) >= 2

====
